---- MODULE Spec2Model ----
(***************************************************************************)
(* tide-validator: the ValidatorMiddleware registry (HttpField -> Vec of   *)
(* validators) and Middleware::handle, which walks the registry against a  *)
(* request and either rejects it or runs the next stage.                   *)
(***************************************************************************)
EXTENDS Integers, Sequences, FiniteSets, TLC

VARIABLES validators, order, phase, registered, tasks, query_parameters

vars == <<validators, order, phase, registered, tasks, query_parameters>>

----------------------------------------------------------------------------
(* Bounds *)

\* add_validator calls made before the middleware is mounted
MaxAdds == 3

\* requests in flight at once against one mounted middleware (SpecConc)
MaxTasks == 2

----------------------------------------------------------------------------
(* Option<&str> and Result *)

None == <<>>

Some(v) == <<v>>

OkR(v) == <<"Ok", v>>

ErrR(e) == <<"Err", e>>

\* Result::ok
result_ok(r) == IF r[1] = "Ok" THEN Some(r[2]) ELSE None

----------------------------------------------------------------------------
(* HttpField *)

Param(name) == <<"Param", name>>

QueryParam(name) == <<"QueryParam", name>>

Header(name) == <<"Header", name>>

Cookie(name) == <<"Cookie", name>>

\* a header name that is not ASCII
NonAsciiName == "né"

Names == {"n", "m", NonAsciiName}

\* the selectors the build phase registers validators under
HttpField == {Param("n"), QueryParam("n"), QueryParam("m"),
              Header("n"), Header(NonAsciiName), Cookie("n")}

----------------------------------------------------------------------------
(* Validators: Fn(&str, Option<&str>) -> Result<(), T>, T: Serialize *)

\* field values: "4" parses as i64, "x" does not
Values == {"4", "x"}

ParsesAsI64(s) == s = "4"

\* T: the tests' CustomError, with ser telling whether its Serialize impl
\* succeeds on the value ("ok") or returns an error ("fail")
CustomError(status_code, message, ser) ==
    [status_code |-> status_code, message |-> message, ser |-> ser]

NoError == CustomError(0, "", "ok")

Pass == [ok |-> TRUE, err |-> NoError]

Fail(e) == [ok |-> FALSE, err |-> e]

is_number(field_name, field_value) ==
    IF field_value # None /\ ~ParsesAsI64(field_value[1])
    THEN Fail(CustomError(400,
              "field '" \o field_name \o "' = '" \o field_value[1]
                  \o "' is not a valid number", "ok"))
    ELSE Pass

is_required(field_name, field_value) ==
    IF field_value = None
    THEN Fail(CustomError(400, "'" \o field_name \o "' is mandatory", "ok"))
    ELSE Pass

\* a caller's validator whose error value cannot be serialized
is_unencodable(field_name, field_value) ==
    IF field_value = None
    THEN Fail(CustomError(400, "'" \o field_name \o "' is mandatory", "fail"))
    ELSE Pass

ValidatorFns == {"is_number", "is_required", "is_unencodable"}

\* calling the stored closure
Call(validator, field_name, field_value) ==
    CASE validator = "is_number" -> is_number(field_name, field_value)
      [] validator = "is_required" -> is_required(field_name, field_value)
      [] validator = "is_unencodable" -> is_unencodable(field_name, field_value)

----------------------------------------------------------------------------
(* Responses *)

StatusOk == 200

BadRequest == 400

InternalServerError == 500

NoResponse == [status |-> 0, mime |-> "", body |-> <<>>]

DecimalDigits == <<"0", "1", "2", "3", "4", "5", "6", "7", "8", "9">>

\* a usize in decimal, digit by digit
RECURSIVE Digits(_)
Digits(n) ==
    IF n < 10 THEN <<DecimalDigits[n + 1]>>
    ELSE Digits(n \div 10) \o <<DecimalDigits[(n % 10) + 1]>>

\* serde_json::to_vec on a CustomError: the JSON text, token by token
to_vec(err) ==
    IF err.ser = "fail"
    THEN ErrR("key must be a string")
    ELSE OkR(<<"{", "\"status_code\"", ":">> \o Digits(err.status_code)
               \o <<",", "\"message\"", ":", "\"", err.message, "\"", "}">>)

\* Response::new(status).body_json(&err)
body_json(status, err) ==
    LET r == to_vec(err)
    IN  IF r[1] = "Ok"
        THEN OkR([status |-> status, mime |-> "application/json", body |-> r[2]])
        ELSE r

\* Response::new(status).body_string(s); s is the pieces format! joins
body_string(status, s) ==
    [status |-> status, mime |-> "text/plain", body |-> s]

\* serde_json::from_slice::<CustomError>, as the tests decode a 400 body
DigitValue(d) == (CHOOSE i \in DOMAIN DecimalDigits : DecimalDigits[i] = d) - 1

RECURSIVE ParseNum(_)
ParseNum(ds) ==
    IF Len(ds) = 1 THEN DigitValue(ds[1])
    ELSE 10 * ParseNum(SubSeq(ds, 1, Len(ds) - 1)) + DigitValue(ds[Len(ds)])

from_slice(b) ==
    LET n == Len(b)
    IN  IF /\ n >= 11
           /\ SubSeq(b, 1, 3) = <<"{", "\"status_code\"", ":">>
           /\ \A i \in 4..(n - 7) : \E j \in DOMAIN DecimalDigits : DecimalDigits[j] = b[i]
           /\ SubSeq(b, n - 6, n - 3) = <<",", "\"message\"", ":", "\"">>
           /\ SubSeq(b, n - 1, n) = <<"\"", "}">>
        THEN OkR([status_code |-> ParseNum(SubSeq(b, 4, n - 7)),
                  message |-> b[n - 2]])
        ELSE ErrR("expected a CustomError")

\* ErrorResponse with the field name serialized where the error should be
ErrorResponse_name(label, name, err) ==
    [status |-> BadRequest, mime |-> "application/json",
     body |-> <<"\"", name, "\"">>]

\* the response of a failed validator:
\* Response::new(BadRequest).body_json(&err).unwrap_or_else(|err| ...)
ErrorResponse(label, name, err) ==
    LET r == body_json(BadRequest, err)
    IN  IF r[1] = "Ok"
        THEN r[2]
        ELSE body_string(InternalServerError,
                 <<"cannot serialize your ", label, " validator for '", name,
                   "' error : ", r[2]>>)

\* the response when ctx.query() fails
QueryErrorResponse(err) ==
    body_string(InternalServerError, <<"cannot read query parameters: ", err>>)

\* the endpoint behind the middleware (the tests' |_| async { Ok("foo") })
Endpoint(ctx) == [status |-> StatusOk, mime |-> "text/plain", body |-> <<"foo">>]

----------------------------------------------------------------------------
(* Requests *)

QueryMaps == {[n |-> Some("x"), m |-> None]}

\* ctx.param(name): Result<String, _>
\* ctx.query(): Result<HashMap<String, String>, _>
\* headers: name -> its values in order (<<>>: the header is absent)
\* cookies: name -> Option of its value
Requests ==
    [param  : [{"n"} -> {ErrR("no such param"), OkR("x")}],
     query  : {ErrR("failed with reason: bad query")} \cup {OkR(q) : q \in QueryMaps},
     header : [{"n"} -> {<<>>, <<"x", "4">>}],
     cookie : [{"n"} -> {None, Some("4")}]]

\* ctx.param(param_name)
ctx_param(ctx, name) ==
    IF name \in DOMAIN ctx.param THEN ctx.param[name] ELSE ErrR("no such param")

\* query_get looking up one fixed key whatever the selector's name
query_get_fixed(qps, name) == qps.n

\* query_parameters.get(param_name)
query_get(qps, name) ==
    IF name = "n" THEN qps.n ELSE IF name = "m" THEN qps.m ELSE None

\* HeaderName::from_str(header_name): Err unless the name is ASCII
HeaderName_from_str(name) ==
    IF name = NonAsciiName THEN ErrR("String slice should be valid ASCII")
    ELSE OkR(name)

\* ctx_header with header.first() for header.last()
ctx_header_first(ctx, name) ==
    IF name \in DOMAIN ctx.header /\ ctx.header[name] # <<>>
    THEN Some(ctx.header[name][1])
    ELSE None

\* ctx.header(&name).map(|header| header.last().map(|val| val.as_str()).unwrap())
ctx_header(ctx, name) ==
    IF name \in DOMAIN ctx.header /\ ctx.header[name] # <<>>
    THEN Some(ctx.header[name][Len(ctx.header[name])])
    ELSE None

\* ctx.cookie(cookie_name).as_ref().map(|c| c.value())
ctx_cookie(ctx, name) ==
    IF name \in DOMAIN ctx.cookie THEN ctx.cookie[name] ELSE None

----------------------------------------------------------------------------
(* The registry: ValidatorMiddleware.validators *)

\* HashMap::new()
new == <<>>

\* add_validator with a plain insert: a second validator replaces the first
add_validator_insert(reg, param_name, validator) ==
    [s \in DOMAIN reg \cup {param_name} |->
        IF s = param_name THEN <<validator>> ELSE reg[s]]

\* add_validator with keys compared by name alone, whatever their kind
add_validator_by_name(reg, param_name, validator) ==
    LET same == {s \in DOMAIN reg : s[2] = param_name[2]}
        key == IF same = {} THEN param_name ELSE CHOOSE s \in same : TRUE
    IN  [s \in DOMAIN reg \cup {key} |->
            IF s = key
            THEN (IF s \in DOMAIN reg THEN Append(reg[s], validator)
                  ELSE <<validator>>)
            ELSE reg[s]]

\* self.validators.entry(param_name).and_modify(|e| e.push(v)).or_insert(vec![v])
add_validator(reg, param_name, validator) ==
    IF param_name \in DOMAIN reg
    THEN [reg EXCEPT ![param_name] = Append(@, validator)]
    ELSE [s \in DOMAIN reg \cup {param_name} |->
             IF s = param_name THEN <<validator>> ELSE reg[s]]

\* with_validators as HashMap::extend would do it: an entry replaces what its
\* selector had
with_validators_extend(self, map, iter) ==
    [s \in DOMAIN self \cup DOMAIN map |->
        IF s \in DOMAIN map THEN <<map[s]>> ELSE self[s]]

\* for (param_name, validator) in validators { self.add_validator(..) }; self
\* iter is the order in which the argument map yields its entries
RECURSIVE with_validators(_, _, _)
with_validators(self, map, iter) ==
    IF iter = <<>> THEN self
    ELSE with_validators(add_validator(self, iter[1], map[iter[1]]),
                         map, Tail(iter))

\* number of validators a registry holds
RECURSIVE Size(_, _)
Size(reg, sels) ==
    IF sels = {} THEN 0
    ELSE LET s == CHOOSE x \in sels : TRUE
         IN  Len(reg[s]) + Size(reg, sels \ {s})

\* the orders in which `for (param_name, validators) in &self.validators`
\* may yield the entries of a HashMap with keys S
Orders(S) ==
    {o \in [1..Cardinality(S) -> S] : \A s \in S : \E i \in DOMAIN o : o[i] = s}

----------------------------------------------------------------------------
(* One call of Middleware::handle *)

Tasks == 1..MaxTasks

NoRequest ==
    [param |-> [x \in {"n"} |-> ErrR("no such param")],
     query |-> ErrR("failed with reason: bad query"),
     header |-> [x \in {"n"} |-> <<>>],
     cookie |-> [x \in {"n"} |-> None]]

\* pc: idle (no request), loop (at the head of the selector loop or inside a
\* non-query arm), query (inside the QueryParam arm, past the decoding),
\* done (returned a response), panicked (an unwrap failed)
\* si: position in the iteration over the registry; vi: validators of the
\* current selector already run
\* calls, decodes, nextRuns, forwarded: what the call did so far
IdleTask ==
    [pc |-> "idle", req |-> NoRequest, si |-> 0, vi |-> 0, calls |-> <<>>,
     decodes |-> 0, nextRuns |-> 0, forwarded |-> None, response |-> NoResponse]

\* one cache for all requests, as a field of the middleware would be
CacheOf_shared(t) == 1

\* `let mut query_parameters` is a local of the future handle returns
CacheOf(t) == t

\* RunValidator without the `return`: the error response is built and the
\* loops go on
RunValidator_no_return(task, label, name, value) ==
    LET sel == order[task.si]
        idx == task.vi + 1
        r == Call(validators[sel][idx], name, value)
        call == [sel |-> sel, idx |-> idx, validator |-> validators[sel][idx],
                 name |-> name, value |-> value, ok |-> r.ok, err |-> r.err]
        resp == IF r.ok THEN task.response ELSE ErrorResponse(label, name, r.err)
    IN  IF idx = Len(validators[sel])
        THEN [task EXCEPT !.pc = "loop", !.si = @ + 1, !.vi = 0,
                          !.calls = Append(@, call), !.response = resp]
        ELSE [task EXCEPT !.vi = idx, !.calls = Append(@, call),
                          !.response = resp]

\* RunValidator with `break` for `return`: a failure ends the selector's
\* validators only
RunValidator_break(task, label, name, value) ==
    LET sel == order[task.si]
        idx == task.vi + 1
        r == Call(validators[sel][idx], name, value)
        call == [sel |-> sel, idx |-> idx, validator |-> validators[sel][idx],
                 name |-> name, value |-> value, ok |-> r.ok, err |-> r.err]
    IN  IF ~r.ok
        THEN [task EXCEPT !.pc = "loop", !.si = @ + 1, !.vi = 0,
                          !.calls = Append(@, call),
                          !.response = ErrorResponse(label, name, r.err)]
        ELSE IF idx = Len(validators[sel])
        THEN [task EXCEPT !.pc = "loop", !.si = @ + 1, !.vi = 0,
                          !.calls = Append(@, call)]
        ELSE [task EXCEPT !.vi = idx, !.calls = Append(@, call)]

\* RunValidator walking the selector's validators from the last to the first
RunValidator_rev(task, label, name, value) ==
    LET sel == order[task.si]
        idx == Len(validators[sel]) - task.vi
        r == Call(validators[sel][idx], name, value)
        call == [sel |-> sel, idx |-> idx, validator |-> validators[sel][idx],
                 name |-> name, value |-> value, ok |-> r.ok, err |-> r.err]
    IN  IF ~r.ok
        THEN [task EXCEPT !.pc = "done", !.calls = Append(@, call),
                          !.response = ErrorResponse(label, name, r.err)]
        ELSE IF idx = 1
        THEN [task EXCEPT !.pc = "loop", !.si = @ + 1, !.vi = 0,
                          !.calls = Append(@, call)]
        ELSE [task EXCEPT !.vi = @ + 1, !.calls = Append(@, call)]

\* one turn of `for validator in validators` in any of the four arms
RunValidator(task, label, name, value) ==
    LET sel == order[task.si]
        idx == task.vi + 1
        r == Call(validators[sel][idx], name, value)
        call == [sel |-> sel, idx |-> idx, validator |-> validators[sel][idx],
                 name |-> name, value |-> value, ok |-> r.ok, err |-> r.err]
    IN  IF ~r.ok
        THEN [task EXCEPT !.pc = "done", !.calls = Append(@, call),
                          !.response = ErrorResponse(label, name, r.err)]
        ELSE IF idx = Len(validators[sel])
        THEN [task EXCEPT !.pc = "loop", !.si = @ + 1, !.vi = 0,
                          !.calls = Append(@, call)]
        ELSE [task EXCEPT !.vi = idx, !.calls = Append(@, call)]

AtSelector(t, kind) ==
    /\ phase = "serve"
    /\ tasks[t].pc = "loop"
    /\ tasks[t].si <= Len(order)
    /\ order[tasks[t].si][1] = kind

\* Begin decoding the query string up front, whatever is registered
Begin_eager(t) ==
    /\ phase = "serve"
    /\ tasks[t].pc = "idle"
    /\ \E ctx \in Requests :
          IF ctx.query[1] = "Err"
          THEN /\ tasks' = [tasks EXCEPT ![t] =
                      [IdleTask EXCEPT !.pc = "done", !.req = ctx, !.si = 1,
                                       !.decodes = 1,
                                       !.response = QueryErrorResponse(ctx.query[2])]]
               /\ query_parameters' = [query_parameters EXCEPT ![CacheOf(t)] = None]
          ELSE /\ tasks' = [tasks EXCEPT ![t] =
                      [IdleTask EXCEPT !.pc = "loop", !.req = ctx, !.si = 1,
                                       !.decodes = 1]]
               /\ query_parameters' =
                      [query_parameters EXCEPT ![CacheOf(t)] = Some(ctx.query[2])]
    /\ UNCHANGED <<validators, order, phase, registered>>

Begin(t) ==
    /\ phase = "serve"
    /\ tasks[t].pc = "idle"
    /\ \E ctx \in Requests :
          tasks' = [tasks EXCEPT ![t] = [IdleTask EXCEPT !.pc = "loop",
                                                         !.req = ctx, !.si = 1]]
    /\ query_parameters' = [query_parameters EXCEPT ![CacheOf(t)] = None]
    /\ UNCHANGED <<validators, order, phase, registered>>

ParamArm(t) ==
    /\ AtSelector(t, "Param")
    /\ LET param_name == order[tasks[t].si][2]
           param_found == ctx_param(tasks[t].req, param_name)
       IN  tasks' = [tasks EXCEPT ![t] =
               RunValidator(@, "parameter", param_name, result_ok(param_found))]
    /\ UNCHANGED <<validators, order, phase, registered, query_parameters>>

\* QueryParamArm reading a query string that fails to decode as an empty map
QueryParamArm_lenient(t) ==
    /\ AtSelector(t, "QueryParam")
    /\ IF query_parameters[CacheOf(t)] = None
       THEN LET r == tasks[t].req.query
            IN  /\ tasks' = [tasks EXCEPT ![t].pc = "query", ![t].decodes = @ + 1]
                /\ query_parameters' =
                       [query_parameters EXCEPT ![CacheOf(t)] =
                           IF r[1] = "Err" THEN Some([n |-> None, m |-> None])
                           ELSE Some(r[2])]
       ELSE /\ tasks' = [tasks EXCEPT ![t].pc = "query"]
            /\ UNCHANGED query_parameters
    /\ UNCHANGED <<validators, order, phase, registered>>

\* QueryParamArm without the is_none test: every query selector decodes
QueryParamArm_no_cache(t) ==
    /\ AtSelector(t, "QueryParam")
    /\ LET r == tasks[t].req.query
       IN  IF r[1] = "Err"
           THEN /\ tasks' = [tasks EXCEPT ![t].pc = "done",
                                          ![t].decodes = @ + 1,
                                          ![t].response = QueryErrorResponse(r[2])]
                /\ UNCHANGED query_parameters
           ELSE /\ tasks' = [tasks EXCEPT ![t].pc = "query",
                                          ![t].decodes = @ + 1]
                /\ query_parameters' =
                       [query_parameters EXCEPT ![CacheOf(t)] = Some(r[2])]
    /\ UNCHANGED <<validators, order, phase, registered>>

QueryParamArm(t) ==
    /\ AtSelector(t, "QueryParam")
    /\ IF query_parameters[CacheOf(t)] = None
       THEN LET r == tasks[t].req.query
            IN  IF r[1] = "Err"
                THEN /\ tasks' = [tasks EXCEPT ![t].pc = "done",
                                               ![t].decodes = @ + 1,
                                               ![t].response = QueryErrorResponse(r[2])]
                     /\ UNCHANGED query_parameters
                ELSE /\ tasks' = [tasks EXCEPT ![t].pc = "query",
                                               ![t].decodes = @ + 1]
                     /\ query_parameters' =
                            [query_parameters EXCEPT ![CacheOf(t)] = Some(r[2])]
       ELSE /\ tasks' = [tasks EXCEPT ![t].pc = "query"]
            /\ UNCHANGED query_parameters
    /\ UNCHANGED <<validators, order, phase, registered>>

QueryValidate(t) ==
    /\ phase = "serve"
    /\ tasks[t].pc = "query"
    /\ LET param_name == order[tasks[t].si][2]
           cache == query_parameters[CacheOf(t)]
       IN  IF cache = None
           THEN tasks' = [tasks EXCEPT ![t].pc = "panicked"]
           ELSE tasks' = [tasks EXCEPT ![t] =
                   RunValidator(@, "query parameter", param_name,
                                query_get(cache[1], param_name))]
    /\ UNCHANGED <<validators, order, phase, registered, query_parameters>>

HeaderArm(t) ==
    /\ AtSelector(t, "Header")
    /\ LET header_name == order[tasks[t].si][2]
           parsed == HeaderName_from_str(header_name)
       IN  IF parsed[1] = "Err"
           THEN tasks' = [tasks EXCEPT ![t].pc = "panicked"]
           ELSE tasks' = [tasks EXCEPT ![t] =
                   RunValidator(@, "header", header_name,
                                ctx_header(tasks[t].req, parsed[2]))]
    /\ UNCHANGED <<validators, order, phase, registered, query_parameters>>

CookieArm(t) ==
    /\ AtSelector(t, "Cookie")
    /\ LET cookie_name == order[tasks[t].si][2]
       IN  tasks' = [tasks EXCEPT ![t] =
               RunValidator(@, "cookie", cookie_name,
                            ctx_cookie(tasks[t].req, cookie_name))]
    /\ UNCHANGED <<validators, order, phase, registered, query_parameters>>

\* RunNext taking the validators out of the registry as it passes
RunNext_truncate(t) ==
    /\ phase = "serve"
    /\ tasks[t].pc = "loop"
    /\ tasks[t].si > Len(order)
    /\ tasks' = [tasks EXCEPT ![t].pc = "done",
                              ![t].nextRuns = @ + 1,
                              ![t].forwarded = Some(tasks[t].req),
                              ![t].response = Endpoint(tasks[t].req)]
    /\ validators' = [s \in DOMAIN validators |-> <<validators[s][1]>>]
    /\ UNCHANGED <<order, phase, registered, query_parameters>>

\* next.run(ctx).await
RunNext(t) ==
    /\ phase = "serve"
    /\ tasks[t].pc = "loop"
    /\ tasks[t].si > Len(order)
    /\ tasks' = [tasks EXCEPT ![t].pc = "done",
                              ![t].nextRuns = @ + 1,
                              ![t].forwarded = Some(tasks[t].req),
                              ![t].response = Endpoint(tasks[t].req)]
    /\ UNCHANGED <<validators, order, phase, registered, query_parameters>>

\* the future is dropped, and its locals with it, once the response has been
\* sent (or the task died); the slot takes a new request
Finish(t) ==
    /\ tasks[t].pc \in {"done", "panicked"}
    /\ tasks' = [tasks EXCEPT ![t] = IdleTask]
    /\ query_parameters' = [query_parameters EXCEPT ![CacheOf(t)] = None]
    /\ UNCHANGED <<validators, order, phase, registered>>

Handle(t) ==
    \/ Begin(t)
    \/ ParamArm(t)
    \/ QueryParamArm(t)
    \/ QueryValidate(t)
    \/ HeaderArm(t)
    \/ CookieArm(t)
    \/ RunNext(t)
    \/ Finish(t)

----------------------------------------------------------------------------
(* Building the middleware, then mounting it on a route *)

\* registered: per selector, the validators passed to add_validator so far,
\* in call order
AddValidator ==
    /\ phase = "build"
    /\ Size(registered, HttpField) < MaxAdds
    /\ \E param_name \in HttpField, validator \in ValidatorFns :
          /\ validators' = add_validator(validators, param_name, validator)
          /\ registered' = [registered EXCEPT ![param_name] = @ \o <<validator>>]
    /\ UNCHANGED <<order, phase, tasks, query_parameters>>

\* app.at(route).middleware(validators): the registry is moved into the app
\* and from then on only read; its iteration order is whatever the HashMap has
Mount ==
    /\ phase = "build"
    /\ phase' = "serve"
    /\ order' \in Orders(DOMAIN validators)
    /\ UNCHANGED <<validators, registered, tasks, query_parameters>>

Init ==
    /\ validators = new
    /\ order = <<>>
    /\ phase = "build"
    /\ registered = [s \in HttpField |-> <<>>]
    /\ tasks = [t \in {1} |-> IdleTask]
    /\ query_parameters = [t \in {1} |-> None]

\* ValidatorMiddleware::new().with_validators(m1).with_validators(m2)...
WithValidators ==
    /\ phase = "build"
    /\ \E S \in SUBSET HttpField :
          /\ S # {}
          /\ Size(registered, HttpField) + Cardinality(S) <= MaxAdds
          /\ \E map \in [S -> ValidatorFns], iter \in Orders(S) :
                /\ validators' = with_validators(validators, map, iter)
                /\ registered' = [s \in HttpField |->
                                     IF s \in S THEN registered[s] \o <<map[s]>>
                                     ELSE registered[s]]
    /\ UNCHANGED <<order, phase, tasks, query_parameters>>

\* a registry built by chained with_validators calls only
SpecBulk == Init /\ [][WithValidators]_vars

\* one request at a time
Next ==
    \/ AddValidator
    \/ Mount
    \/ Handle(1)

Spec == Init /\ [][Next]_vars

----------------------------------------------------------------------------
(* Requests in flight together against one mounted middleware *)

\* the registry a sequence of add_validator calls builds
RECURSIVE Build(_)
Build(calls) ==
    IF calls = <<>> THEN new
    ELSE add_validator(Build(SubSeq(calls, 1, Len(calls) - 1)),
                       calls[Len(calls)][1], calls[Len(calls)][2])

\* registries in the shape of the tests': a query parameter and a cookie
\* (validator_custom), two query parameters, a path parameter and a header
ConcRegistries ==
    {Build(<<<<QueryParam("n"), "is_number">>, <<Cookie("n"), "is_required">>>>),
     Build(<<<<QueryParam("n"), "is_required">>, <<QueryParam("m"), "is_number">>>>),
     Build(<<<<Param("n"), "is_required">>, <<Header("n"), "is_number">>>>)}

InitConc ==
    /\ validators \in ConcRegistries
    /\ order \in Orders(DOMAIN validators)
    /\ phase = "serve"
    /\ registered = [s \in HttpField |->
                         IF s \in DOMAIN validators THEN validators[s] ELSE <<>>]
    /\ tasks = [t \in Tasks |-> IdleTask]
    /\ query_parameters = [t \in Tasks |-> None]

NextConc == \E t \in Tasks : Handle(t)

SpecConc == InitConc /\ [][NextConc]_vars

----------------------------------------------------------------------------
(* Properties *)

Failed(task) == \E k \in DOMAIN task.calls : ~task.calls[k].ok

\* C1: the next stage runs only after every registered validator of every
\* registered selector has been invoked on the request and returned success;
\* once a validator has returned an error the next stage is not run and the
\* call has returned a 400 or 500 response
C1_NextOnlyAfterAllPass ==
    \A t \in DOMAIN tasks :
        LET task == tasks[t]
        IN  /\ task.nextRuns > 0 =>
                  \A sel \in HttpField : \A i \in 1..Len(registered[sel]) :
                      \E k \in DOMAIN task.calls :
                          /\ task.calls[k].sel = sel
                          /\ task.calls[k].idx = i
                          /\ task.calls[k].validator = registered[sel][i]
                          /\ task.calls[k].ok
            /\ Failed(task) =>
                  /\ task.nextRuns = 0
                  /\ task.forwarded = None
                  /\ task.pc = "done"
                  /\ task.response.status \in {BadRequest, InternalServerError}

\* a request went through two selectors and reached the next stage
C1_Witness ==
    \E t \in DOMAIN tasks :
        /\ tasks[t].nextRuns = 1
        /\ Cardinality(DOMAIN validators) >= 2
        /\ Len(tasks[t].calls) >= 2

\* C2: a validator that fails is the last one invoked for the request: no
\* later validator of its selector and no validator of any selector visited
\* later runs, and the call has returned
C2_FirstFailureHalts ==
    \A t \in DOMAIN tasks :
        \A k \in DOMAIN tasks[t].calls :
            ~tasks[t].calls[k].ok =>
                /\ k = Len(tasks[t].calls)
                /\ tasks[t].pc = "done"
                /\ \A l \in DOMAIN tasks[t].calls :
                      /\ tasks[t].calls[l].sel = tasks[t].calls[k].sel
                            => tasks[t].calls[l].idx <= tasks[t].calls[k].idx
                      /\ l # k => tasks[t].calls[l].ok

\* a validator failed with a validator of its selector and another selector
\* still to come
C2_Witness ==
    \E t \in DOMAIN tasks :
        /\ tasks[t].pc = "done"
        /\ Failed(tasks[t])
        /\ tasks[t].si < Len(order)
        /\ tasks[t].calls[Len(tasks[t].calls)].idx
               < Len(validators[order[tasks[t].si]])

\* C3: the validators of one selector are invoked in the order add_validator
\* got them: the i-th invocation on a selector is of the i-th validator
\* registered under it
C3_RegistrationOrder ==
    \A t \in DOMAIN tasks :
        \A k \in DOMAIN tasks[t].calls :
            LET c == tasks[t].calls[k]
            IN  /\ c.idx = Cardinality({j \in 1..k : tasks[t].calls[j].sel = c.sel})
                /\ c.idx <= Len(registered[c.sel])
                /\ c.validator = registered[c.sel][c.idx]

\* is_required then is_number, registered in that order under one selector,
\* were both invoked
C3_Witness ==
    \E t \in DOMAIN tasks :
        \E k \in DOMAIN tasks[t].calls :
            /\ k > 1
            /\ tasks[t].calls[k].sel = tasks[t].calls[k - 1].sel
            /\ tasks[t].calls[k - 1].validator = "is_required"
            /\ tasks[t].calls[k].validator = "is_number"

\* C9: the registry maps each selector add_validator was called with, and no
\* other, to the validators passed for it, in call order
C9_RegistryIsWhatWasAdded ==
    /\ DOMAIN validators = {s \in HttpField : registered[s] # <<>>}
    /\ \A s \in DOMAIN validators : validators[s] = registered[s]

\* add_validator was called twice for one selector and once for another
C9_Witness ==
    /\ phase = "build"
    /\ Cardinality(DOMAIN validators) = 2
    /\ \E s \in DOMAIN validators :
          /\ Len(validators[s]) = 2
          /\ validators[s][1] # validators[s][2]

Range(f) == {f[i] : i \in DOMAIN f}

QuerySelectors == {s \in DOMAIN validators : s[1] = "QueryParam"}

\* the field a selector names, as the request carries it (None: absent)
Extract(sel, ctx) ==
    CASE sel[1] = "Param" ->
             IF sel[2] \in DOMAIN ctx.param /\ ctx.param[sel[2]][1] = "Ok"
             THEN Some(ctx.param[sel[2]][2]) ELSE None
      [] sel[1] = "QueryParam" ->
             IF ctx.query[1] = "Ok" /\ sel[2] \in DOMAIN ctx.query[2]
             THEN ctx.query[2][sel[2]] ELSE None
      [] sel[1] = "Header" ->
             IF sel[2] \in DOMAIN ctx.header /\ ctx.header[sel[2]] # <<>>
             THEN Some(ctx.header[sel[2]][Len(ctx.header[sel[2]])]) ELSE None
      [] sel[1] = "Cookie" ->
             IF sel[2] \in DOMAIN ctx.cookie THEN ctx.cookie[sel[2]] ELSE None

\* the task has entered the arm of the i-th selector of the iteration
Visited(task, i) ==
    \/ i < task.si
    \/ i = task.si /\ task.pc \in {"query", "done", "panicked"}

\* C4 as claimed: a request whose query string fails to decode is answered
\* with the 500 "cannot read query parameters" response, whatever the registry
C4_Original ==
    \A t \in DOMAIN tasks :
        (tasks[t].pc = "done" /\ tasks[t].req.query[1] = "Err") =>
            /\ tasks[t].response.status = InternalServerError
            /\ tasks[t].response.body[1] = "cannot read query parameters: "

\* C4, amended: a query string that fails to decode is never handed to a
\* validator of a query selector, and the call that reaches a query selector
\* with it returns at once the 500 "cannot read query parameters" response,
\* without running the next stage
C4_QueryErrorAtQuerySelector ==
    \A t \in DOMAIN tasks :
        LET task == tasks[t]
        IN  (task.pc # "idle" /\ task.req.query[1] = "Err") =>
                /\ task.pc # "query"
                /\ \A k \in DOMAIN task.calls : task.calls[k].sel[1] # "QueryParam"
                /\ (\E i \in 1..Len(order) :
                        order[i][1] = "QueryParam" /\ Visited(task, i)) =>
                      /\ task.pc = "done"
                      /\ order[task.si][1] = "QueryParam"
                      /\ task.decodes = 1
                      /\ task.nextRuns = 0
                      /\ task.response.status = InternalServerError
                      /\ task.response.mime = "text/plain"
                      /\ task.response.body =
                             <<"cannot read query parameters: ", task.req.query[2]>>

\* a request whose query string does not decode passed the validators of one
\* selector and was then answered 500 at a query selector
C4_Witness ==
    \E t \in DOMAIN tasks :
        /\ tasks[t].pc = "done"
        /\ tasks[t].req.query[1] = "Err"
        /\ tasks[t].si = 2
        /\ Len(tasks[t].calls) >= 1
        /\ tasks[t].response.status = InternalServerError

\* C5: a Param, Header or Cookie selector whose field the request lacks gets
\* None passed to its validators, and the call does not panic or return at
\* such a selector unless one of its validators failed
C5_Original ==
    \A t \in DOMAIN tasks :
        LET task == tasks[t]
        IN  /\ task.pc # "panicked"
            /\ \A k \in DOMAIN task.calls :
                  (/\ task.calls[k].sel[1] \in {"Param", "Header", "Cookie"}
                   /\ Extract(task.calls[k].sel, task.req) = None)
                      => task.calls[k].value = None
            /\ (/\ task.pc = "done"
                /\ task.si <= Len(order)
                /\ order[task.si][1] \in {"Param", "Header", "Cookie"})
                  => Failed(task)

\* C6 as claimed: with two or more query selectors registered, every request
\* answered has had its query string decoded exactly once
C6_Original ==
    \A t \in DOMAIN tasks :
        (tasks[t].pc = "done" /\ Cardinality(QuerySelectors) >= 2) =>
            tasks[t].decodes = 1

\* C6, amended: the query string is decoded at most once per request: not at
\* all before a query selector is visited, once when the first one is, and
\* never again; after a successful decoding the cache holds the decoded map
C6_DecodedAtMostOnce ==
    \A t \in DOMAIN tasks :
        LET task == tasks[t]
            visitedQ == \E i \in 1..Len(order) :
                            order[i][1] = "QueryParam" /\ Visited(task, i)
        IN  /\ task.decodes = IF visitedQ THEN 1 ELSE 0
            /\ task.pc \in {"loop", "query"} =>
                  query_parameters[t] =
                      IF task.decodes = 1 THEN Some(task.req.query[2]) ELSE None

\* a request passed two query selectors and reached the next stage
C6_Witness ==
    \E t \in DOMAIN tasks :
        /\ tasks[t].nextRuns = 1
        /\ Cardinality(QuerySelectors) >= 2
        /\ \A s \in QuerySelectors :
              \E k \in DOMAIN tasks[t].calls : tasks[t].calls[k].sel = s
        /\ tasks[t].decodes = 1

\* C7: when a validator returned the error E the next stage is not run; the
\* response is 400 with a JSON body that decodes to E or, only when E fails
\* to serialize, 500 with a text body naming the selector and the failure
C7_ErrorRoundTrip ==
    \A t \in DOMAIN tasks :
        \A k \in DOMAIN tasks[t].calls :
            LET c == tasks[t].calls[k]
                resp == tasks[t].response
            IN  ~c.ok =>
                    /\ tasks[t].nextRuns = 0
                    /\ tasks[t].forwarded = None
                    /\ c.err = Call(c.validator, c.sel[2], Extract(c.sel, tasks[t].req)).err
                    /\ IF to_vec(c.err)[1] = "Ok"
                       THEN /\ resp.status = BadRequest
                            /\ resp.mime = "application/json"
                            /\ from_slice(resp.body) =
                                   OkR([status_code |-> c.err.status_code,
                                        message |-> c.err.message])
                       ELSE /\ resp.status = InternalServerError
                            /\ resp.mime = "text/plain"
                            /\ c.sel[2] \in Range(resp.body)
                            /\ to_vec(c.err)[2] \in Range(resp.body)

\* is_number rejected a value that is present, and the 400 response is out
C7_Witness ==
    \E t \in DOMAIN tasks :
        /\ tasks[t].pc = "done"
        /\ tasks[t].response.status = BadRequest
        /\ \E k \in DOMAIN tasks[t].calls :
              /\ ~tasks[t].calls[k].ok
              /\ tasks[t].calls[k].validator = "is_number"
              /\ tasks[t].calls[k].value = Some("x")

\* every validator registered accepts the field its selector names in the
\* request, and the query string decodes if a query selector is registered
AllAccept(ctx) ==
    /\ \A sel \in DOMAIN validators : \A i \in 1..Len(validators[sel]) :
          Call(validators[sel][i], sel[2], Extract(sel, ctx)).ok
    /\ QuerySelectors # {} => ctx.query[1] = "Ok"

\* C8: a request every validator accepts is handed, unmodified, to the next
\* stage exactly once, and the next stage's response is returned unchanged
C8_Original ==
    \A t \in DOMAIN tasks :
        (tasks[t].pc \in {"done", "panicked"} /\ AllAccept(tasks[t].req)) =>
            /\ tasks[t].nextRuns = 1
            /\ tasks[t].forwarded = Some(tasks[t].req)
            /\ tasks[t].response = Endpoint(tasks[t].req)

Label(kind) ==
    CASE kind = "Param" -> "parameter"
      [] kind = "QueryParam" -> "query parameter"
      [] kind = "Header" -> "header"
      [] kind = "Cookie" -> "cookie"

\* what handling ctx from the i-th selector of the iteration on comes to when
\* nothing else runs: the first selector that panics, fails to decode or has
\* a failing validator decides, and the next stage answers if there is none
RECURSIVE Alone(_, _)
Alone(ctx, i) ==
    IF i > Len(order) THEN [pc |-> "done", response |-> Endpoint(ctx)]
    ELSE LET sel == order[i]
             fails == {j \in 1..Len(validators[sel]) :
                          ~Call(validators[sel][j], sel[2], Extract(sel, ctx)).ok}
             first == CHOOSE j \in fails : \A l \in fails : j <= l
         IN  IF sel[1] = "Header" /\ HeaderName_from_str(sel[2])[1] = "Err"
             THEN [pc |-> "panicked", response |-> NoResponse]
             ELSE IF sel[1] = "QueryParam" /\ ctx.query[1] = "Err"
             THEN [pc |-> "done", response |-> QueryErrorResponse(ctx.query[2])]
             ELSE IF fails = {} THEN Alone(ctx, i + 1)
             ELSE [pc |-> "done",
                   response |-> ErrorResponse(Label(sel[1]), sel[2],
                       Call(validators[sel][first], sel[2], Extract(sel, ctx)).err)]

\* C10: with requests in flight together, each ends as it would have ended
\* handled alone, and the query cache of a request holds nothing but what
\* that request's own handling put there
C10_Isolation ==
    \A t \in DOMAIN tasks :
        LET task == tasks[t]
        IN  /\ task.pc \in {"done", "panicked"} =>
                  /\ task.pc = Alone(task.req, 1).pc
                  /\ task.response = Alone(task.req, 1).response
            /\ query_parameters[t] =
                  IF task.pc # "idle" /\ task.decodes = 1 /\ task.req.query[1] = "Ok"
                  THEN Some(task.req.query[2]) ELSE None

\* one request holds a decoded query string in its cache while another, whose
\* query string does not decode, has been answered 500
C10_Witness ==
    \E t1, t2 \in DOMAIN tasks :
        /\ t1 # t2
        /\ tasks[t1].pc = "query"
        /\ query_parameters[t1] # None
        /\ tasks[t2].pc = "done"
        /\ tasks[t2].req.query[1] = "Err"
        /\ tasks[t2].decodes = 1

\* C11: handling never ends without a response: the call does not die, and
\* when it has returned the response is the next stage's, a 400 or a 500
C11_Original ==
    \A t \in DOMAIN tasks :
        /\ tasks[t].pc # "panicked"
        /\ tasks[t].pc = "done" =>
              tasks[t].response.status \in {StatusOk, BadRequest, InternalServerError}

\* C14: with nothing registered every request goes through: no validator is
\* invoked, the query string is not decoded, and the call returns the next
\* stage's response to the unmodified request, never a 400 or 500 of its own
C14_EmptyRegistryPassesThrough ==
    \A t \in DOMAIN tasks :
        LET task == tasks[t]
        IN  (phase = "serve" /\ DOMAIN validators = {} /\ task.pc # "idle") =>
                /\ task.pc \in {"loop", "done"}
                /\ task.calls = <<>>
                /\ task.decodes = 0
                /\ query_parameters[t] = None
                /\ task.pc = "done" =>
                      /\ task.nextRuns = 1
                      /\ task.forwarded = Some(task.req)
                      /\ task.response = Endpoint(task.req)

\* the empty registry let through a request whose query string does not
\* decode and that carries no path parameter, header or cookie
C14_Witness ==
    \E t \in DOMAIN tasks :
        /\ phase = "serve"
        /\ DOMAIN validators = {}
        /\ tasks[t].pc = "done"
        /\ tasks[t].req = NoRequest
        /\ tasks[t].response.status = StatusOk

\* C16: every invocation passes the name of the selector the validator is
\* registered under and the value the request carries for that selector
\* (None when absent), so all validators of a selector get the same value
C16_NameAndValueOfOwnSelector ==
    \A t \in DOMAIN tasks :
        \A k \in DOMAIN tasks[t].calls :
            LET c == tasks[t].calls[k]
            IN  /\ c.sel \in DOMAIN validators
                /\ c.idx \in DOMAIN validators[c.sel]
                /\ c.validator = validators[c.sel][c.idx]
                /\ c.name = c.sel[2]
                /\ c.value = Extract(c.sel, tasks[t].req)
                /\ \A l \in DOMAIN tasks[t].calls :
                      tasks[t].calls[l].sel = c.sel
                          => tasks[t].calls[l].value = c.value

\* the validators of QueryParam("m"), absent from a query string that has
\* "n", were given None, after another selector's validator got a value
C16_Witness ==
    \E t \in DOMAIN tasks :
        \E k, l \in DOMAIN tasks[t].calls :
            /\ tasks[t].calls[k].sel = QueryParam("m")
            /\ tasks[t].calls[k].value = None
            /\ tasks[t].req.query[1] = "Ok"
            /\ tasks[t].req.query[2].n # None
            /\ tasks[t].calls[l].sel # QueryParam("m")
            /\ tasks[t].calls[l].value # None

\* C17: the validators of a Header selector get the last of the header's
\* values in the request, and None when the request has no such header
C17_HeaderLastValue ==
    \A t \in DOMAIN tasks :
        \A k \in DOMAIN tasks[t].calls :
            LET c == tasks[t].calls[k]
                values == IF c.sel[2] \in DOMAIN tasks[t].req.header
                          THEN tasks[t].req.header[c.sel[2]] ELSE <<>>
            IN  c.sel[1] = "Header" =>
                    c.value = IF values = <<>> THEN None
                              ELSE Some(values[Len(values)])

\* is_number accepted a header whose first value is not a number and whose
\* last value is
C17_Witness ==
    \E t \in DOMAIN tasks :
        \E k \in DOMAIN tasks[t].calls :
            /\ tasks[t].calls[k].sel = Header("n")
            /\ tasks[t].calls[k].validator = "is_number"
            /\ tasks[t].req.header["n"] = <<"x", "4">>
            /\ tasks[t].calls[k].value = Some("4")
            /\ tasks[t].calls[k].ok

\* the sequence a registry holds for a selector, empty when it has none
SeqOf(reg, s) == IF s \in DOMAIN reg THEN reg[s] ELSE <<>>

\* C12: a selector is its (kind, name) pair: an add_validator call appends to
\* the sequence of the selector it names, that selector's earlier validators
\* staying in place, and every other selector, one of another kind with the
\* same name included, keeps its sequence and its presence as they were
C12_SelectorIsKindAndName ==
    [][\A s \in HttpField :
          IF registered'[s] # registered[s]
          THEN /\ s \in DOMAIN validators'
               /\ validators'[s] =
                     Append(SeqOf(validators, s), registered'[s][Len(registered'[s])])
          ELSE /\ (s \in DOMAIN validators') = (s \in DOMAIN validators)
               /\ SeqOf(validators', s) = SeqOf(validators, s)]_vars

\* Header("n") and Cookie("n") each hold their own sequence, and the two
\* validators added under Header("n") share one
C12_Witness ==
    /\ Header("n") \in DOMAIN validators
    /\ Cookie("n") \in DOMAIN validators
    /\ validators[Header("n")] = <<"is_required", "is_number">>
    /\ validators[Cookie("n")] = <<"is_unencodable">>

\* C13: a with_validators call leaves the registry as add_validator called
\* once per entry of the map does, in whatever order the entries come: the
\* validators registered before are kept, and each entry is appended to its
\* selector's sequence, which is new when the selector was not there
C13_BulkIsAddPerEntry ==
    [][LET S == {s \in HttpField : registered'[s] # registered[s]}
           map == [s \in S |-> registered'[s][Len(registered'[s])]]
       IN  /\ DOMAIN validators' = DOMAIN validators \cup S
           /\ \A s \in DOMAIN validators' :
                 validators'[s] = IF s \in S
                                  THEN Append(SeqOf(validators, s), map[s])
                                  ELSE validators[s]
           /\ \A o \in Orders(S) :
                 LET calls == [i \in DOMAIN o |-> <<o[i], map[o[i]]>>]
                     added[i \in 0..Len(o)] ==
                         IF i = 0 THEN validators
                         ELSE add_validator(added[i - 1], calls[i][1], calls[i][2])
                 IN  validators' = added[Len(o)]]_vars

\* two chained with_validators calls: the second gave Header("n") a second
\* validator, after the first's, and brought Cookie("n") in
C13_Witness ==
    /\ phase = "build"
    /\ DOMAIN validators = {Header("n"), Cookie("n")}
    /\ validators[Header("n")] = <<"is_number", "is_required">>
    /\ validators[Cookie("n")] = <<"is_required">>

\* C15: once mounted, no step of handle changes the registry (its selectors,
\* their sequences, their iteration order), and the only state written
\* besides the call's own locals is the query cache of the call that steps
C15_HandleReadsRegistryOnly ==
    [][phase = "serve" =>
          /\ validators' = validators
          /\ order' = order
          /\ registered' = registered
          /\ phase' = phase
          /\ \A t \in DOMAIN tasks :
                tasks'[t] = tasks[t] => query_parameters'[t] = query_parameters[t]]_vars

\* a request has been rejected by a registry that still holds exactly what
\* was added to it, two validators under one selector among them
C15_Witness ==
    \E t \in DOMAIN tasks :
        /\ tasks[t].pc = "done"
        /\ Failed(tasks[t])
        /\ \E s \in DOMAIN validators : Len(validators[s]) = 2
        /\ \A s \in HttpField : SeqOf(validators, s) = registered[s]

\* Alone with the order of iteration given
RECURSIVE AloneIn(_, _, _)
AloneIn(iter, ctx, i) ==
    IF i > Len(iter) THEN [pc |-> "done", response |-> Endpoint(ctx)]
    ELSE LET sel == iter[i]
             fails == {j \in 1..Len(validators[sel]) :
                          ~Call(validators[sel][j], sel[2], Extract(sel, ctx)).ok}
             first == CHOOSE j \in fails : \A l \in fails : j <= l
         IN  IF sel[1] = "Header" /\ HeaderName_from_str(sel[2])[1] = "Err"
             THEN [pc |-> "panicked", response |-> NoResponse]
             ELSE IF sel[1] = "QueryParam" /\ ctx.query[1] = "Err"
             THEN [pc |-> "done", response |-> QueryErrorResponse(ctx.query[2])]
             ELSE IF fails # {}
             THEN [pc |-> "done",
                   response |-> ErrorResponse(Label(sel[1]), sel[2],
                                    Call(validators[sel][first], sel[2],
                                         Extract(sel, ctx)).err)]
             ELSE AloneIn(iter, ctx, i + 1)

\* how a call ended: the next stage answered, handle answered 400 or 500
\* itself, or the call died without an answer
Outcome(r) ==
    IF r.pc = "panicked" THEN "died"
    ELSE IF r.response.status = StatusOk THEN "forwarded"
    ELSE "rejected"

\* C18: a call that has ended has ended the way it would have under any
\* other order of the registry's selectors: forwarded under all of them or
\* rejected under all of them
C18_Original ==
    \A t \in DOMAIN tasks :
        tasks[t].pc \in {"done", "panicked"} =>
            \A o \in Orders(DOMAIN validators) :
                Outcome(AloneIn(o, tasks[t].req, 1)) = Outcome(tasks[t])

====
